---------------------------- MODULE Spec2Model ----------------------------
(***************************************************************************)
(* TahoeNN (src/TahoeNN.cpp): layers, the static data feed and the Trainer *)
(* as a state machine.                                                     *)
(*                                                                         *)
(* Numbers.  The program computes on floats.  Here a float is an integer:  *)
(* sample inputs are small integers, a weight is the draw of the default-  *)
(* seeded mt19937 rounded to the nearest integer, and exp is the integer   *)
(* part of 2^x.  Lengths, indices, the order of calls and the assertions   *)
(* are those of the code.                                                  *)
(*                                                                         *)
(* Three specifications share the operators below:                         *)
(*   Spec       main(): a Trainer is constructed over a LayerSet and a     *)
(*              StaticDataFeed, then train() is called repeatedly.         *)
(*   SpecFeed   a StaticDataFeed is constructed and getNext is called.     *)
(*   SpecLayer  two adjacent layers are driven directly through the        *)
(*              BaseLayer interface, in any order.                         *)
(* An assertion that fails aborts the process: phase becomes "aborted" and *)
(* no action is enabled afterwards.                                        *)
(***************************************************************************)
EXTENDS Integers, Sequences, FiniteSets, TLC

\* ------------------------------------------------------------- bounds ---
MaxLayers == 3      \* longest LayerSet handed to a Trainer
MaxDim == 2         \* largest layer dimension
MaxSamples == 2     \* largest dataset
MaxTrain == 2       \* number of train() calls on one Trainer
MaxExtraCalls == 2  \* getNext calls beyond the size of the dataset

VARIABLES
    layers,         \* the LayerSet: sequence of [kind, inputDim, outputDim]
    weights,        \* weights[i]: BaseLayer::_weights of layer i
    inited,         \* inited[i]: initializeWeights of layer i has returned
    weights0,       \* history: weights[i] as left by initializeWeights
    validated,      \* "none" | "ok" | "failed": outcome of Trainer::validate
    phase,          \* "new" | "ready" | "aborted"
    trainCalls,     \* number of train() calls made
    log,            \* history: the calls made, in order
    finals,         \* history: final output of every completed forward pass
    dataset,        \* StaticDataFeed::_dataset
    currentOffset,  \* StaticDataFeed::_currentOffset
    feed,           \* "none" | "live" | "crashed"
    input,          \* the caller's InputData passed to getNext
    delivered,      \* history: result of every getNext call of the caller
    lastCall        \* history: the last direct call on a layer

vars == <<layers, weights, inited, weights0, validated, phase, trainCalls,
          log, finals, dataset, currentOffset, feed, input, delivered,
          lastCall>>

\* ------------------------------------------------------------ values ----
Dims == 0..MaxDim
PosDims == 1..MaxDim

InputLayer(d) == [kind |-> "Input", inputDim |-> d, outputDim |-> d]

FullyConnectedHiddenLayer(i, o) ==
    [kind |-> "Hidden", inputDim |-> i, outputDim |-> o]

FullyConnectedOutputLayer(i, o) ==
    [kind |-> "Output", inputDim |-> i, outputDim |-> o]

LayerTypes(D) ==
    {InputLayer(d) : d \in D}
        \cup {FullyConnectedHiddenLayer(i, o) : i \in D, o \in D}
        \cup {FullyConnectedOutputLayer(i, o) : i \in D, o \in D}

\* the LayerSets handed to a Trainer: any layers, the output-layer class in
\* last position only (it differs from the hidden-layer class in backProp
\* alone, which the Trainer never calls)
LayerSet(D) ==
    UNION {{c \in [1..n -> LayerTypes(D)] :
                \A i \in 1..(n - 1) : c[i].kind # "Output"} : n \in 0..MaxLayers}

IsFC(l) == l.kind \in {"Hidden", "Output"}

Vec(n) == [k \in 1..n |-> k]

InputData(n, t) == [_input |-> Vec(n), _target |-> t]

EmptyInputData == [_input |-> <<>>, _target |-> <<>>]

Samples(N, T) == {InputData(n, t) : n \in N, t \in T}

Datasets(N, T) == UNION {[1..n -> Samples(N, T)] : n \in 0..MaxSamples}

\* samples one shorter than, as long as, and one longer than d values
DatasetsAround(d) == Datasets({d - 1, d, d + 1}, {<<>>})

OneSample == <<InputData(1, <<>>)>>

CallVectors == UNION {[1..n -> {-1, 1}] : n \in 0..(MaxDim + 1)}

Event(o, s, l, a, b) ==
    [op |-> o, sample |-> s, layer |-> l, inLen |-> a, outLen |-> b]

NoCall == [op |-> "none", layer |-> 0, input |-> <<>>, ok |-> TRUE, out |-> <<>>]

\* ----------------------------------------------------- weight filling ---
\* the first draws of uniform_real_distribution<float>(0,1) over a default
\* constructed mt19937 (0.8147 0.1355 0.9058 0.8350 0.1270 0.9689 0.9134
\* 0.2210 0.6324 0.3082 0.0975 0.5472), rounded
MTStream == <<1, 0, 1, 1, 0, 1, 1, 0, 1, 0, 0, 1>>

Rand(k) == MTStream[((k - 1) % Len(MTStream)) + 1]

VectorRandomInitialize(vec) ==
    IF ~(Len(vec) > 0)
    THEN [ok |-> FALSE, vec |-> vec]
    ELSE [ok |-> TRUE, vec |-> [k \in 1..Len(vec) |-> Rand(k)]]

InitializeWeightsFCSum(l) ==
    VectorRandomInitialize([k \in 1..(l.inputDim + l.outputDim) |-> 0])

InitializeWeightsFC(l) ==
    VectorRandomInitialize([k \in 1..(l.inputDim * l.outputDim) |-> 0])

\* virtual initializeWeights(): w is the layer's _weights before the call
InitializeWeights(l, w) ==
    IF IsFC(l) THEN InitializeWeightsFC(l) ELSE [ok |-> TRUE, vec |-> w]

\* ------------------------------------------------------- forward pass ---
Exp(x) == IF x < 0 THEN 0 ELSE 2 ^ x

\* output[i] = 1 / 1 + exp(-sigma[i])
Activation(s) == (1 \div 1) + Exp(-s)

ForwardPropInput(in) == [ok |-> TRUE, out |-> [k \in 1..Len(in) |-> in[k]]]

RECURSIVE AccumulateStride(_, _, _, _, _)
AccumulateStride(l, w, in, i, sigma) ==
    IF ~(i < Len(in))
    THEN [ok |-> TRUE, sigma |-> sigma]
    ELSE LET startWeightIndex == i * l.inputDim
             endWeightIndex == startWeightIndex + l.outputDim
             bad == \E j \in startWeightIndex..(endWeightIndex - 1) :
                        \/ ~(j - startWeightIndex >= 0
                                /\ j - startWeightIndex < l.outputDim)
                        \/ ~(j - startWeightIndex < Len(sigma))
                        \/ ~(j < Len(w))
         IN  IF bad
             THEN [ok |-> FALSE, sigma |-> sigma]
             ELSE AccumulateStride(l, w, in, i + 1,
                     [jj \in 1..Len(sigma) |->
                         IF jj <= l.outputDim
                         THEN sigma[jj] + w[startWeightIndex + jj] * in[i + 1]
                         ELSE sigma[jj]])

\* the accumulation loop, lines 128-141; i, j are the code's 0-based indices
RECURSIVE Accumulate(_, _, _, _, _)
Accumulate(l, w, in, i, sigma) ==
    IF ~(i < Len(in))
    THEN [ok |-> TRUE, sigma |-> sigma]
    ELSE LET startWeightIndex == i * l.outputDim
             endWeightIndex == startWeightIndex + l.outputDim
             bad == \E j \in startWeightIndex..(endWeightIndex - 1) :
                        \/ ~(j - startWeightIndex >= 0
                                /\ j - startWeightIndex < l.outputDim)
                        \/ ~(j - startWeightIndex < Len(sigma))
                        \/ ~(j < Len(w))
         IN  IF bad
             THEN [ok |-> FALSE, sigma |-> sigma]
             ELSE Accumulate(l, w, in, i + 1,
                     [jj \in 1..Len(sigma) |->
                         IF jj <= l.outputDim
                         THEN sigma[jj] + w[startWeightIndex + jj] * in[i + 1]
                         ELSE sigma[jj]])

ForwardPropFC(l, w, in) ==
    LET acc == Accumulate(l, w, in, 0, [j \in 1..l.outputDim |-> 0])
        out == [j \in 1..l.outputDim |-> Activation(acc.sigma[j])]
    IN  IF ~acc.ok
        THEN [ok |-> FALSE, out |-> <<>>]
        ELSE IF \E j \in 1..l.outputDim : ~(out[j] >= 0)
             THEN [ok |-> FALSE, out |-> <<>>]
             ELSE [ok |-> TRUE, out |-> out]

\* virtual forwardProp(input, output)
ForwardProp(l, w, in) ==
    IF IsFC(l) THEN ForwardPropFC(l, w, in) ELSE ForwardPropInput(in)

BackPropUpdate(l, w) == [k \in 1..Len(w) |-> w[k] + 1]

\* virtual backProp(): every override has an empty body
BackProp(l, w) == w

\* -------------------------------------------------------- data feed ----
\* the constructor reads _dataset[0] without a check: on an empty dataset
\* the read is out of bounds, and the build either faults or goes on
StaticDataFeedCtor(ds) ==
    IF Len(ds) = 0 THEN {"crashed", "live"} ELSE {"live"}

GetNextDropLast(ds, off, in) ==
    IF off + 1 < Len(ds)
    THEN [ret |-> TRUE, input |-> ds[off + 1], off |-> off + 1]
    ELSE [ret |-> FALSE, input |-> in, off |-> off]

GetNext(ds, off, in) ==
    IF off < Len(ds)
    THEN [ret |-> TRUE, input |-> ds[off + 1], off |-> off + 1]
    ELSE [ret |-> FALSE, input |-> in, off |-> off]

\* ----------------------------------------------------------- Trainer ----
RECURSIVE ValidateLoopStale(_, _, _)
ValidateLoopStale(ls, idx, prevLayerSize) ==
    IF idx > Len(ls)
    THEN TRUE
    ELSE IF ~(prevLayerSize = ls[idx].inputDim)
         THEN FALSE
         ELSE ValidateLoopStale(ls, idx + 1, prevLayerSize)

RECURSIVE ValidateLoop(_, _, _)
ValidateLoop(ls, idx, prevLayerSize) ==
    IF idx > Len(ls)
    THEN TRUE
    ELSE IF ~(prevLayerSize = ls[idx].inputDim)
         THEN FALSE
         ELSE ValidateLoop(ls, idx + 1, ls[idx].outputDim)

\* TRUE when no assertion of validate() fails
Validate(ls) ==
    IF ~(Len(ls) >= 2) THEN FALSE ELSE ValidateLoop(ls, 1, ls[1].inputDim)

RECURSIVE InitializeAllSkipFirst(_, _, _, _, _)
InitializeAllSkipFirst(ls, idx, ws, ini, ev) ==
    IF idx > Len(ls)
    THEN [ok |-> TRUE, weights |-> ws, inited |-> ini, ev |-> ev]
    ELSE IF idx = 1
    THEN InitializeAllSkipFirst(ls, idx + 1, ws, ini, ev)
    ELSE LET r == InitializeWeights(ls[idx], ws[idx])
             e == Append(ev, Event("initializeWeights", 0, idx, 0, 0))
         IN  IF ~r.ok
             THEN [ok |-> FALSE, weights |-> [ws EXCEPT ![idx] = r.vec],
                   inited |-> ini, ev |-> e]
             ELSE InitializeAllSkipFirst(ls, idx + 1,
                      [ws EXCEPT ![idx] = r.vec],
                      [ini EXCEPT ![idx] = TRUE], e)

\* Trainer::initializeWeights(), from layer idx on
RECURSIVE InitializeAll(_, _, _, _, _)
InitializeAll(ls, idx, ws, ini, ev) ==
    IF idx > Len(ls)
    THEN [ok |-> TRUE, weights |-> ws, inited |-> ini, ev |-> ev]
    ELSE LET r == InitializeWeights(ls[idx], ws[idx])
             e == Append(ev, Event("initializeWeights", 0, idx, 0, 0))
         IN  IF ~r.ok
             THEN [ok |-> FALSE, weights |-> [ws EXCEPT ![idx] = r.vec],
                   inited |-> ini, ev |-> e]
             ELSE InitializeAll(ls, idx + 1,
                      [ws EXCEPT ![idx] = r.vec],
                      [ini EXCEPT ![idx] = TRUE], e)

TrainerCtorInitFirst(ls, ws, ini) ==
    LET r == InitializeAll(ls, 1, ws, ini, <<>>)
        e == Append(r.ev, Event("validate", 0, 0, 0, 0))
    IN  IF ~r.ok
        THEN [validated |-> "none", ok |-> FALSE, weights |-> r.weights,
              inited |-> r.inited, ev |-> r.ev]
        ELSE IF ~Validate(ls)
             THEN [validated |-> "failed", ok |-> FALSE,
                   weights |-> r.weights, inited |-> r.inited, ev |-> e]
             ELSE [validated |-> "ok", ok |-> TRUE, weights |-> r.weights,
                   inited |-> r.inited, ev |-> e]

\* Trainer::Trainer: validate(), then initializeWeights()
TrainerCtor(ls, ws, ini) ==
    LET e == <<Event("validate", 0, 0, 0, 0)>>
    IN  IF ~Validate(ls)
        THEN [validated |-> "failed", ok |-> FALSE, weights |-> ws,
              inited |-> ini, ev |-> e]
        ELSE LET r == InitializeAll(ls, 1, ws, ini, e)
             IN  [validated |-> "ok", ok |-> r.ok, weights |-> r.weights,
                  inited |-> r.inited, ev |-> r.ev]

\* Trainer::forwardProp(input) for sample number s, from layer idx on
RECURSIVE ChainForwardProp(_, _, _, _, _, _)
ChainForwardProp(ls, ws, s, idx, currentInput, ev) ==
    IF idx > Len(ls)
    THEN [ok |-> TRUE, out |-> currentInput, ev |-> ev]
    ELSE LET r == ForwardProp(ls[idx], ws[idx], currentInput)
             e == Append(ev, Event(IF r.ok THEN "layerForward"
                                           ELSE "layerAbort",
                                   s, idx, Len(currentInput), Len(r.out)))
         IN  IF ~r.ok
             THEN [ok |-> FALSE, out |-> <<>>, ev |-> e]
             ELSE ChainForwardProp(ls, ws, s, idx + 1, r.out, e)

TrainOnce(ls, ws, ds, off, in, ev, fin) ==
    LET g == GetNext(ds, off, in)
    IN  IF ~g.ret
        THEN [ok |-> TRUE, off |-> g.off,
              ev |-> Append(ev, Event("getNext", 0, 0, 0, 0)), fin |-> fin]
        ELSE LET e == ev \o <<Event("getNext", g.off, 0, 0, 0),
                               Event("forwardProp", g.off, 0, 0, 0)>>
                 f == ChainForwardProp(ls, ws, g.off, 1, g.input._input, e)
             IN  [ok |-> f.ok, off |-> g.off, ev |-> f.ev,
                  fin |-> IF f.ok
                          THEN Append(fin, [sample |-> g.off, out |-> f.out])
                          ELSE fin]

\* Trainer::train(): the while loop over getNext
RECURSIVE Train(_, _, _, _, _, _, _)
Train(ls, ws, ds, off, in, ev, fin) ==
    LET g == GetNext(ds, off, in)
    IN  IF ~g.ret
        THEN [ok |-> TRUE, off |-> g.off,
              ev |-> Append(ev, Event("getNext", 0, 0, 0, 0)), fin |-> fin]
        ELSE LET e == ev \o <<Event("getNext", g.off, 0, 0, 0),
                               Event("forwardProp", g.off, 0, 0, 0)>>
                 f == ChainForwardProp(ls, ws, g.off, 1, g.input._input, e)
             IN  IF ~f.ok
                 THEN [ok |-> FALSE, off |-> g.off, ev |-> f.ev, fin |-> fin]
                 ELSE Train(ls, ws, ds, g.off, g.input, f.ev,
                            Append(fin, [sample |-> g.off, out |-> f.out]))

\* ================================================================ Spec ==
\* every LayerSet against one dataset, and every LayerSet that validate()
\* accepts against every dataset (the constructor does not touch the feed)
Init ==
    /\ layers \in LayerSet(PosDims)
    /\ weights = [i \in 1..Len(layers) |-> <<>>]
    /\ inited = [i \in 1..Len(layers) |-> FALSE]
    /\ weights0 = [i \in 1..Len(layers) |-> <<>>]
    /\ validated = "none"
    /\ phase = "new"
    /\ trainCalls = 0
    /\ log = <<>>
    /\ finals = <<>>
    /\ \/ dataset = OneSample
       \/ /\ Validate(layers)
          /\ dataset \in DatasetsAround(layers[1].inputDim)
    /\ currentOffset = 0
    /\ feed = "live"
    /\ input = EmptyInputData
    /\ delivered = <<>>
    /\ lastCall = NoCall

\* std::make_shared<Trainer>(layers, dataFeed)
Construct ==
    /\ phase = "new"
    /\ feed = "live"
    /\ \E r \in {TrainerCtor(layers, weights, inited)} :
           /\ validated' = r.validated
           /\ weights' = r.weights
           /\ weights0' = r.weights
           /\ inited' = r.inited
           /\ log' = log \o r.ev
           /\ phase' = IF r.ok THEN "ready" ELSE "aborted"
    /\ UNCHANGED <<layers, trainCalls, finals, dataset, currentOffset, feed,
                   input, delivered, lastCall>>

\* trainer->train()
TrainCall ==
    /\ phase = "ready"
    /\ trainCalls < MaxTrain
    /\ \E r \in {Train(layers, weights, dataset, currentOffset,
                      EmptyInputData, log, finals)} :
           /\ currentOffset' = r.off
           /\ log' = r.ev
           /\ finals' = r.fin
           /\ phase' = IF r.ok THEN "ready" ELSE "aborted"
    /\ trainCalls' = trainCalls + 1
    /\ UNCHANGED <<layers, weights, inited, weights0, validated, dataset,
                   feed, input, delivered, lastCall>>

Next == Construct \/ TrainCall

Spec == Init /\ [][Next]_vars

\* ============================================================ SpecFeed ==
InitFeed ==
    /\ layers = <<>>
    /\ weights = <<>>
    /\ inited = <<>>
    /\ weights0 = <<>>
    /\ validated = "none"
    /\ phase = "new"
    /\ trainCalls = 0
    /\ log = <<>>
    /\ finals = <<>>
    /\ dataset \in Datasets(0..(MaxDim + 1), {<<>>, <<1>>})
    /\ currentOffset = 0
    /\ feed = "none"
    /\ input = EmptyInputData
    /\ delivered = <<>>
    /\ lastCall = NoCall

\* new StaticDataFeed(staticData)
NewFeed ==
    /\ feed = "none"
    /\ feed' \in StaticDataFeedCtor(dataset)
    /\ currentOffset' = 0
    /\ UNCHANGED <<layers, weights, inited, weights0, validated, phase,
                   trainCalls, log, finals, dataset, input, delivered,
                   lastCall>>

\* dataFeed->getNext(input)
CallGetNext ==
    /\ feed = "live"
    /\ Len(delivered) < Len(dataset) + MaxExtraCalls
    /\ \E g \in {GetNext(dataset, currentOffset, input)} :
           /\ currentOffset' = g.off
           /\ input' = g.input
           /\ delivered' = Append(delivered, [ret |-> g.ret, input |-> g.input])
    /\ UNCHANGED <<layers, weights, inited, weights0, validated, phase,
                   trainCalls, log, finals, dataset, feed, lastCall>>

NextFeed == NewFeed \/ CallGetNext

SpecFeed == InitFeed /\ [][NextFeed]_vars

\* =========================================================== SpecLayer ==
InitLayer ==
    /\ layers \in [1..2 -> LayerTypes(Dims)]
    /\ layers[1].outputDim = layers[2].inputDim
    /\ weights = [i \in 1..2 |-> <<>>]
    /\ inited = [i \in 1..2 |-> FALSE]
    /\ weights0 = [i \in 1..2 |-> <<>>]
    /\ validated = "none"
    /\ phase = "ready"
    /\ trainCalls = 0
    /\ log = <<>>
    /\ finals = <<>>
    /\ dataset = <<>>
    /\ currentOffset = 0
    /\ feed = "none"
    /\ input = EmptyInputData
    /\ delivered = <<>>
    /\ lastCall = NoCall

\* layer->initializeWeights()
CallInitializeWeights(i) ==
    /\ phase = "ready"
    /\ \E r \in {InitializeWeights(layers[i], weights[i])} :
           /\ weights' = [weights EXCEPT ![i] = r.vec]
           /\ weights0' = [weights0 EXCEPT ![i] = r.vec]
           /\ inited' = [inited EXCEPT ![i] = r.ok]
           /\ phase' = IF r.ok THEN "ready" ELSE "aborted"
           /\ lastCall' = [op |-> "initializeWeights", layer |-> i,
                           input |-> <<>>, ok |-> r.ok, out |-> <<>>]
    /\ UNCHANGED <<layers, validated, trainCalls, log, finals, dataset,
                   currentOffset, feed, input, delivered>>

\* layer->forwardProp(in, out)
CallForwardProp(i, in) ==
    /\ phase = "ready"
    /\ \E r \in {ForwardProp(layers[i], weights[i], in)} :
           /\ phase' = IF r.ok THEN "ready" ELSE "aborted"
           /\ lastCall' = [op |-> "forwardProp", layer |-> i, input |-> in,
                           ok |-> r.ok, out |-> r.out]
    /\ UNCHANGED <<layers, weights, inited, weights0, validated, trainCalls,
                   log, finals, dataset, currentOffset, feed, input,
                   delivered>>

\* layer->backProp()
CallBackProp(i) ==
    /\ phase = "ready"
    /\ weights' = [weights EXCEPT ![i] = BackProp(layers[i], weights[i])]
    /\ lastCall' = [op |-> "backProp", layer |-> i, input |-> <<>>,
                    ok |-> TRUE, out |-> <<>>]
    /\ UNCHANGED <<layers, inited, weights0, validated, phase, trainCalls,
                   log, finals, dataset, currentOffset, feed, input,
                   delivered>>

NextLayer ==
    \E i \in 1..2 :
        \/ CallInitializeWeights(i)
        \/ \E in \in CallVectors : CallForwardProp(i, in)
        \/ CallBackProp(i)

SpecLayer == InitLayer /\ [][NextLayer]_vars

\* ============================================================== claims ==
\* the chain invariant of the data model: at least two layers, and every
\* adjacent pair agrees on the dimension between them
WellFormed(ls) ==
    /\ Len(ls) >= 2
    /\ \A i \in 1..(Len(ls) - 1) : ls[i].outputDim = ls[i + 1].inputDim

HasFC == \E i \in 1..Len(layers) : IsFC(layers[i])

LogPos(o) == {p \in 1..Len(log) : log[p].op = o}

ForwardedSamples == SelectSeq(log, LAMBDA e : e.op = "forwardProp")

InSourceOrder(fw) == \A k \in 1..Len(fw) : fw[k].sample = k

\* sample k is longer than the input dimension of the chain
TooLong(k) == HasFC /\ Len(dataset[k]._input) > layers[1].inputDim

\* C1: validate succeeds exactly on the chains of length >= 2 whose adjacent
\* layers agree (outputDim of one = inputDim of the next), and fails on
\* every other chain.
C1_ValidateIffWellFormed ==
    /\ phase # "new" => validated # "none"
    /\ validated = "ok" => WellFormed(layers)
    /\ validated = "failed" => ~WellFormed(layers)

C1_Witness ==
    /\ validated = "failed"
    /\ Len(layers) = 3
    /\ layers[1].outputDim = layers[2].inputDim
    /\ layers[2].outputDim # layers[3].inputDim

\* C2: over N >= 1 samples getNext returns true for exactly the first N
\* calls, handing out dataset[1..N] in order, and false on every later call.
C2_GetNextInOrder ==
    Len(dataset) >= 1 =>
        /\ \A k \in 1..Len(delivered) :
              /\ delivered[k].ret = (k <= Len(dataset))
              /\ k <= Len(dataset) => delivered[k].input = dataset[k]
        /\ currentOffset = IF Len(delivered) <= Len(dataset)
                           THEN Len(delivered) ELSE Len(dataset)

C2_Witness ==
    /\ Len(dataset) >= 2
    /\ dataset[1] # dataset[2]
    /\ Len(delivered) = Len(dataset) + 2

\* C3 as stated: every train() call returns normally, having run the chain
\* forward pass once per sample in the order of the source.
C3_TrainAlwaysReturns ==
    trainCalls >= 1 =>
        /\ phase = "ready"
        /\ Len(ForwardedSamples) = Len(dataset)
        /\ InSourceOrder(ForwardedSamples)

\* C3 amended: train() always terminates.  It runs the chain forward pass
\* once per sample pulled, in the order of the source.  When no sample is
\* longer than the first layer's inputDim (or the chain has no
\* fully-connected layer) it returns normally at the first getNext that
\* reports no sample; otherwise the process aborts in the forward pass of
\* the first such sample.
C3_TrainSweep ==
    trainCalls >= 1 =>
        LET fw == ForwardedSamples
            bad == {k \in 1..Len(dataset) : TooLong(k)}
        IN  /\ InSourceOrder(fw)
            /\ IF bad = {}
               THEN /\ phase = "ready"
                    /\ Len(fw) = Len(dataset)
                    /\ Len(finals) = Len(dataset)
                    /\ currentOffset = Len(dataset)
                    /\ log[Len(log)] = Event("getNext", 0, 0, 0, 0)
                    /\ Cardinality({p \in LogPos("getNext") :
                                       log[p].sample = 0}) = trainCalls
               ELSE LET b == CHOOSE k \in bad : \A m \in bad : k <= m
                    IN  /\ phase = "aborted"
                        /\ trainCalls = 1
                        /\ Len(fw) = b
                        /\ Len(finals) = b - 1
                        /\ currentOffset = b
                        /\ log[Len(log)].op = "layerAbort"

C3_Witness ==
    /\ phase = "ready"
    /\ trainCalls = 2
    /\ HasFC
    /\ Len(dataset) = 2
    /\ Len(finals) = 2

\* C4: a chain that breaks the length or adjacency rule aborts the Trainer's
\* construction in validate: no layer is initialized or forward-propagated,
\* no sample is pulled, and train() never runs.
C4_NoSetupOnInvalidChain ==
    (phase # "new" /\ ~WellFormed(layers)) =>
        /\ phase = "aborted"
        /\ trainCalls = 0
        /\ \A p \in 1..Len(log) : log[p].op = "validate"
        /\ \A i \in 1..Len(layers) : weights[i] = <<>> /\ ~inited[i]
        /\ currentOffset = 0
        /\ finals = <<>>

C4_Witness ==
    /\ phase = "aborted"
    /\ Len(layers) >= 2
    /\ HasFC
    /\ ~WellFormed(layers)
    /\ Len(dataset) >= 1

\* C5: from construction through any number of train() calls every layer is
\* initialized once, in chain order, and before any layer's forwardProp.
C5_InitOnceInOrderBeforeForward ==
    LET initPos(i) == {p \in LogPos("initializeWeights") : log[p].layer = i}
        fwdPos == LogPos("layerForward") \cup LogPos("layerAbort")
    IN  /\ \A i \in 1..Len(layers) : Cardinality(initPos(i)) <= 1
        /\ phase = "ready" =>
              /\ \A i \in 1..Len(layers) : Cardinality(initPos(i)) = 1
              /\ \A i, j \in 1..Len(layers) :
                    i < j => \A p \in initPos(i), q \in initPos(j) : p < q
        /\ \A p \in fwdPos : \A i \in 1..Len(layers) :
              /\ inited[i]
              /\ \E q \in initPos(i) : q < p

C5_Witness ==
    /\ phase = "ready"
    /\ trainCalls = 2
    /\ Len(layers) = 3
    /\ LogPos("layerForward") # {}

\* C6: forwardProp of an initialized fully-connected layer on an input whose
\* length differs from inputDim fails and produces no output.
C6_LengthMismatchFails ==
    (/\ lastCall.op = "forwardProp"
     /\ IsFC(layers[lastCall.layer])
     /\ inited[lastCall.layer]
     /\ Len(lastCall.input) # layers[lastCall.layer].inputDim)
        => ~lastCall.ok

\* C7: no StaticDataFeed over an empty dataset ever becomes usable.
C7_EmptyFeedNeverLive == feed = "live" => Len(dataset) >= 1

\* C8: an initialized fully-connected layer holds inputDim*outputDim weights
\* through every later forwardProp and backProp; an input layer never holds
\* any.
C8_WeightBufferLength ==
    \A i \in 1..Len(layers) :
        /\ ~IsFC(layers[i]) => weights[i] = <<>>
        /\ (IsFC(layers[i]) /\ inited[i]) =>
              Len(weights[i]) = layers[i].inputDim * layers[i].outputDim

C8_Witness ==
    /\ lastCall.op = "backProp"
    /\ IsFC(layers[lastCall.layer])
    /\ inited[lastCall.layer]
    /\ layers[lastCall.layer].inputDim = 2
    /\ layers[lastCall.layer].outputDim = 1
    /\ Len(weights[lastCall.layer]) = 2

\* C9: on a validated chain, the forward pass of a sample whose input length
\* is the first layer's inputDim fails no assertion: every layer receives
\* inputDim values and returns outputDim values, and the final output has
\* the last layer's outputDim.
C9_MatchingSampleForwardCompletes ==
    \A k \in 1..Len(dataset) :
        (/\ validated = "ok"
         /\ Len(dataset[k]._input) = layers[1].inputDim
         /\ \E p \in LogPos("forwardProp") : log[p].sample = k)
        => /\ \A i \in 1..Len(layers) : \E p \in 1..Len(log) :
                 log[p] = Event("layerForward", k, i, layers[i].inputDim,
                                layers[i].outputDim)
           /\ \A p \in LogPos("layerAbort") : log[p].sample # k
           /\ \E n \in 1..Len(finals) :
                 /\ finals[n].sample = k
                 /\ Len(finals[n].out) = layers[Len(layers)].outputDim

C9_Witness ==
    /\ phase = "ready"
    /\ Len(layers) = 3
    /\ layers[1].kind = "Input"
    /\ layers[2].kind = "Hidden"
    /\ layers[3].kind = "Output"
    /\ layers[2].outputDim # layers[2].inputDim
    /\ Len(dataset) = 2
    /\ \A k \in 1..2 : Len(dataset[k]._input) = layers[1].inputDim
    /\ Len(finals) = 2

\* C10: a forwardProp or backProp call on any layer leaves every layer's
\* weights and dimensions and the chain as they were, so that weights stay
\* as initializeWeights left them and forwardProp returns what it returns
\* on those weights for the same input.
C10_CallsPreserveWeights ==
    [][lastCall'.op \in {"forwardProp", "backProp"} =>
          /\ layers' = layers
          /\ weights' = weights
          /\ weights' = weights0
          /\ (lastCall'.op = "forwardProp" =>
                LET r == ForwardProp(layers[lastCall'.layer],
                                     weights0[lastCall'.layer],
                                     lastCall'.input)
                IN  lastCall'.ok = r.ok /\ lastCall'.out = r.out)]_vars

C10_Witness ==
    /\ lastCall.op = "backProp"
    /\ IsFC(layers[lastCall.layer])
    /\ inited[lastCall.layer]
    /\ Len(weights[lastCall.layer]) >= 2
    /\ layers[3 - lastCall.layer].kind = "Input"

=============================================================================
